---- MODULE Spec2Model ----
(***************************************************************************)
(* State-machine model of the UrbanFix complaint backend.                  *)
(*                                                                         *)
(* The repository holds three server entry files that read the same        *)
(* environment (SUPABASE_URL, SUPABASE_KEY, JWT_SECRET), hence the same    *)
(* record store, object storage and signing secret:                        *)
(*   "server"  src/unnamed/part_001  (the full route surface)              *)
(*   "index"   src/index.js          (tags + upvote revision)              *)
(*   "legacy"  src/unnamed/part_000  (first revision)                      *)
(* and src/authMiddleware.js with the isAdmin gate used by "server".       *)
(*                                                                         *)
(* JavaScript values are modelled as strings: Undefined, Null and the      *)
(* booleans are the strings below; "" is the empty string.  SQL NULL in an *)
(* integer column is NullInt, a null image_url is the empty path <<>>.     *)
(*                                                                         *)
(* A handler is split at its awaited external calls.  The step that        *)
(* performs external call k also runs the handler's local code up to the   *)
(* point where call k+1 is issued; the arrival step runs the middleware    *)
(* chain, the handler's synchronous validation and the first call.  Local  *)
(* code reads only the request, so this changes no interleaving of the     *)
(* store operations.                                                       *)
(*                                                                         *)
(* Only "index" registers express.json(); "server" parses the multipart    *)
(* body of POST /submit with multer.  The model takes req.body as the      *)
(* parsed body on every route of every file, as the handlers themselves    *)
(* do when they destructure it.                                            *)
(***************************************************************************)
EXTENDS Integers, Sequences, FiniteSets, TLC

\* ------------------------------------------------------------------ bounds
MaxTime == 5400        \* the clock stops advancing here (seconds)
TickStep == 1800       \* granularity of the clock (seconds)
MaxTokens == 2         \* tokens issued in one behaviour
MaxComplaints == 2     \* rows ever inserted in one behaviour
MaxReq == 2            \* requests in flight at once
MaxUpvotes == 3        \* successful upvotes counted per complaint
MaxUuids == 2          \* file names generated in one behaviour
MaxTagLen == 3         \* entries of a submitted tag list
MaxComments == 2       \* comment requests per complaint, stored or in flight

\* -------------------------------------------------------- program constants
ExpiresIn == 3600      \* jwt.sign(..., { expiresIn: '1h' }), in seconds

\* ------------------------------------------------------------- JS values
Undefined == "undefined"
Null == "null"
JsTrue == "true"
JsFalse == "false"
NullInt == 0 - 1
NullUrl == << >>

\* !v for the values that occur in the model
Falsy(v) == v \in {Undefined, Null, JsFalse, ""}

\* a || b
OrElse(a, b) == IF Falsy(a) THEN b ELSE a

\* ------------------------------------------------------------- constants
VALID_TAGS == <<"electricity", "canteen", "furniture", "campus">>

JWT_SECRET == "JWT_SECRET"

\* array.includes(x)
Includes(arr, x) == \E k \in 1..Len(arr) : arr[k] = x

\* array.filter(x => pred(x)), keeping order and duplicates
RECURSIVE FilterIncluded(_, _)
FilterIncluded(arr, allowed) ==
    IF arr = << >> THEN << >>
    ELSE IF Includes(allowed, Head(arr))
         THEN <<Head(arr)>> \o FilterIncluded(Tail(arr), allowed)
         ELSE FilterIncluded(Tail(arr), allowed)

\* array.every(x => allowed.includes(x))
EveryIncluded(arr, allowed) == \A k \in 1..Len(arr) : Includes(allowed, arr[k])

\* ------------------------------------------------- identity store (external)
Users == {"u1", "u2"}

\* user.email of the identity store
EmailOf(u) == IF u = "u1" THEN "u1@x" ELSE "u2@x"

\* user.user_metadata?.admin of the identity store: u2 is the administrator
MetadataAdmin(u) == IF u = "u2" THEN JsTrue ELSE Undefined

\* the identities signUp can create: user_metadata of a new identity holds
\* no admin key ("index" sets only name)
NewUsers == {"u3"}

\* ------------------------------------------------------ session tokens (JWT)
\* The claims of a payload are JSON: JSON.stringify drops the keys whose
\* value is undefined, and reading a key that is absent gives undefined.
ClaimKeys == {"email", "id", "isAdmin"}

\* JSON.stringify(payload), as the function from the kept keys to their values
JsonEncode(payload) == [k \in {x \in ClaimKeys : payload[x] # Undefined} |-> payload[k]]

\* obj[k] of a parsed JSON object
Get(obj, k) == IF k \in DOMAIN obj THEN obj[k] ELSE Undefined

\* a string that is not a JWT
Garbage ==
    [wellformed |-> FALSE,
     claims |-> JsonEncode([email |-> Undefined, id |-> Undefined, isAdmin |-> Undefined]),
     iat |-> 0, exp |-> 0, key |-> ""]

\* req.user when no middleware set it, and what a failed verify hands over
NoUser ==
    [email |-> Undefined, id |-> Undefined, isAdmin |-> Undefined, iat |-> 0, exp |-> 0]

\* jwt.sign(payload, secret, { expiresIn: '1h' }) at time t
JwtSign(payload, secret, t) ==
    [wellformed |-> TRUE, claims |-> JsonEncode(payload), iat |-> t,
     exp |-> t + ExpiresIn, key |-> secret]

\* the decoded payload of a token
JwtDecode(tok) ==
    [email |-> Get(tok.claims, "email"), id |-> Get(tok.claims, "id"),
     isAdmin |-> Get(tok.claims, "isAdmin"), iat |-> tok.iat, exp |-> tok.exp]

\* jwt.verify(token, secret, callback) at time t: callback(err, decoded)
JwtVerify(tok, secret, t) ==
    IF ~tok.wellformed THEN [err |-> "jwt malformed", user |-> NoUser]
    ELSE IF tok.key # secret THEN [err |-> "invalid signature", user |-> NoUser]
    ELSE IF t >= tok.exp THEN [err |-> "jwt expired", user |-> NoUser]
    ELSE [err |-> "", user |-> JwtDecode(tok)]

\* the payload generateToken(user) of "server" signs
TokenPayload_AlwaysAdmin(u) ==
    [email |-> EmailOf(u), id |-> u, isAdmin |-> JsTrue]

TokenPayload(u) ==
    [email |-> EmailOf(u), id |-> u, isAdmin |-> OrElse(MetadataAdmin(u), JsFalse)]

\* the payload generateToken(user) of "index" and "legacy" signs: no isAdmin
TokenPayloadIndex(u) == [email |-> EmailOf(u), id |-> u, isAdmin |-> Undefined]

\* the payload POST /admin/login signs
AdminLoginPayload(u) == [id |-> u, email |-> EmailOf(u), isAdmin |-> JsTrue]

\* generateToken signing with expiresIn: '2h'
generateToken_TwoHours(u, t) ==
    [JwtSign(TokenPayload(u), JWT_SECRET, t) EXCEPT !.exp = t + 2 * ExpiresIn]

\* generateToken(user) of "server" at time t
generateToken(u, t) == JwtSign(TokenPayload(u), JWT_SECRET, t)

\* generateToken(user) of "index" and "legacy" at time t
generateTokenIndex(u, t) == JwtSign(TokenPayloadIndex(u), JWT_SECRET, t)

\* the jwt.sign of POST /admin/login at time t
adminLoginToken(u, t) == JwtSign(AdminLoginPayload(u), JWT_SECRET, t)

\* ------------------------------------------------------------ the gates
\* req.headers['authorization']: absent, empty, "<token>" or "Bearer <token>"
NoHeader == [scheme |-> "none", tok |-> Garbage]
EmptyHeader == [scheme |-> "empty", tok |-> Garbage]
RawHeader(tok) == [scheme |-> "raw", tok |-> tok]
BearerHeader(tok) == [scheme |-> "Bearer", tok |-> tok]

\* !tokenHeader
HeaderMissing(h) == h.scheme \in {"none", "empty"}

\* a token an attacker signs with a key of their own
Forged(u) ==
    [wellformed |-> TRUE,
     claims |-> JsonEncode([email |-> EmailOf(u), id |-> u, isAdmin |-> JsTrue]),
     iat |-> 0, exp |-> MaxTime + ExpiresIn + 1, key |-> "attacker"]

\* next() was called: no status was sent by the gate
Pass == 0

\* return res.status(code).json({ message })
Denied(code, msg) == [code |-> code, user |-> NoUser, msg |-> msg]

\* req.user = user; next()
Passed(user) == [code |-> Pass, user |-> user, msg |-> "next"]

\* authenticateToken calling next() whatever jwt.verify reports
authenticateToken_IgnoreErr(h, t) ==
    IF HeaderMissing(h) THEN Denied(401, "Access denied. No token provided.")
    ELSE LET token == IF h.scheme = "Bearer" THEN Garbage ELSE h.tok
             v == JwtVerify(token, JWT_SECRET, t)
         IN  Passed(v.user)

\* authenticateToken: the whole header value is handed to jwt.verify
authenticateToken(h, t) ==
    IF HeaderMissing(h) THEN Denied(401, "Access denied. No token provided.")
    ELSE LET token == IF h.scheme = "Bearer" THEN Garbage ELSE h.tok
             v == JwtVerify(token, JWT_SECRET, t)
         IN  IF v.err # "" THEN Denied(403, "Invalid token.")
             ELSE Passed(v.user)

\* authenticateAdmin
authenticateAdmin(h, t) ==
    IF HeaderMissing(h) THEN Denied(401, "Access denied. No token provided.")
    ELSE LET token == IF h.scheme = "Bearer" THEN Garbage ELSE h.tok
             v == JwtVerify(token, JWT_SECRET, t)
         IN  IF v.err # "" THEN Denied(403, "Invalid token.")
             ELSE IF Falsy(v.user.isAdmin) THEN Denied(403, "Access denied. Admins only.")
             ELSE Passed(v.user)

\* isAdmin without the test of user.isAdmin
isAdmin_NoRoleCheck(h, t) ==
    IF HeaderMissing(h) THEN Denied(401, "Access denied. No token provided.")
    ELSE LET v == JwtVerify(h.tok, JWT_SECRET, t)
         IN  IF v.err # "" THEN Denied(403, "Invalid token.")
             ELSE Passed(v.user)

\* isAdmin of authMiddleware.js: an optional "Bearer " prefix is stripped
isAdmin(h, t) ==
    IF HeaderMissing(h) THEN Denied(401, "Access denied. No token provided.")
    ELSE LET token == h.tok
             v == JwtVerify(token, JWT_SECRET, t)
         IN  IF v.err # "" THEN Denied(403, "Invalid token.")
             ELSE IF Falsy(v.user.isAdmin) THEN Denied(403, "Access denied. Admins only.")
             ELSE Passed(v.user)

\* no middleware on the route: req.user stays undefined
noGate(h, t) == Passed(NoUser)

\* ------------------------------------------------------------------ state
VARIABLES
    now,        \* the server clock, seconds
    issued,     \* history: the tokens signed with JWT_SECRET so far, each
                \* with the payload it was signed from and the time
    store,      \* table complaints of the record store: id -> row or NoRow
    nextId,     \* the next id the record store assigns
    objects,    \* object storage, bucket complaint-images: the stored names
    nextUuid,   \* the next value uuidv4() returns
    reqs,       \* the requests in flight: slot -> request or Idle
    resp,       \* the response being written to the client, or NoResp
    upvoted     \* history: id -> number of upvote requests answered 200

vars == <<now, issued, store, nextId, objects, nextUuid, reqs, resp, upvoted>>

Ids == 1..MaxComplaints
Slots == 1..MaxReq

NoRow == [exists |-> FALSE]
Exists(st, id) == st[id] # NoRow

Idle == [pc |-> "idle"]

NoResp ==
    [route |-> "none", app |-> "none", hdr |-> NoHeader, cid |-> 0, code |-> 0,
     calls |-> 0, last |-> "none", body |-> "none", tok |-> Garbage,
     input |-> [none |-> TRUE], at |-> 0]

\* res.status(code).json(...) of a request; calls is the number of external
\* calls the request made, code NoResponse when the handler ended without
\* one, last the outcome of its last external call ("none": it made none),
\* input what the request carried (body, file) and the handler's locals,
\* at the time the request arrived and went through its middleware
Response(route, app, hdr, cid, code, calls, last, body, input) ==
    [route |-> route, app |-> app, hdr |-> hdr, cid |-> cid, code |-> code,
     calls |-> calls, last |-> last, body |-> body, tok |-> Garbage, input |-> input,
     at |-> now]

\* res.json({ message: 'Login successful', token })
TokenResponse(route, app, code, tok, u) ==
    [route |-> route, app |-> app, hdr |-> NoHeader, cid |-> 0, code |-> code,
     calls |-> 1, last |-> "ok", body |-> "token", tok |-> tok, input |-> [user |-> u],
     at |-> now]

NoResponse == 0

\* the outcomes of an awaited external call: a result, { error } or a throw
Outcomes == {"ok", "error", "throw"}

\* The event loop runs one callback at a time and a response is written
\* out before the next callback runs: a callback runs when resp = NoResp.
Ready == resp = NoResp

\* the lowest free slot takes the arriving request
Free(i) == Ready /\ reqs[i] = Idle /\ \A j \in Slots : j < i => reqs[j] # Idle

\* the request of slot i awaits the external call pc
At(i, pc) == Ready /\ reqs[i].pc = pc

\* the response reaches the client
Deliver ==
    /\ resp # NoResp
    /\ resp' = NoResp
    /\ UNCHANGED <<now, issued, store, nextId, objects, nextUuid, reqs, upvoted>>

\* the record of one issuance
Issuance(tok, payload, t) == [tok |-> tok, payload |-> payload, at |-> t]

IssuedTokens == {e.tok : e \in issued}

\* the headers a client can send: it holds the tokens issued so far
Headers ==
    {NoHeader, EmptyHeader, RawHeader(Garbage)}
        \cup {RawHeader(t) : t \in IssuedTokens}
        \cup {BearerHeader(t) : t \in IssuedTokens}
        \cup {RawHeader(Forged("u1"))}

\* a request is taken up only when the event loop is ready for a callback
Arrivals == IF resp = NoResp THEN Headers ELSE {}

Init ==
    /\ now = 0
    /\ issued = {}
    /\ store = [id \in Ids |-> NoRow]
    /\ nextId = 1
    /\ objects = {}
    /\ nextUuid = 1
    /\ reqs = [i \in Slots |-> Idle]
    /\ resp = NoResp
    /\ upvoted = [id \in Ids |-> 0]

\* time passes
Tick ==
    /\ Ready
    /\ now + TickStep <= MaxTime
    /\ now' = now + TickStep
    /\ resp' = NoResp
    /\ UNCHANGED <<issued, store, nextId, objects, nextUuid, reqs, upvoted>>

\* ------------------------------------------------------------ token issuance
\* POST /login of "server": o is the outcome of signInWithPassword
\* (error: wrong password or dependency failure)
Login(u, o) ==
    /\ Ready
    /\ Cardinality(issued) < MaxTokens
    /\ IF o = "throw"
       THEN /\ resp' = Response("POST /login", "server", NoHeader, 0, 500, 1, o, "error", [user |-> u])
            /\ UNCHANGED issued
       ELSE IF o = "error"
       THEN /\ resp' = Response("POST /login", "server", NoHeader, 0, 401, 1, o, "error", [user |-> u])
            /\ UNCHANGED issued
       ELSE /\ issued' = issued \cup {Issuance(generateToken(u, now), TokenPayload(u), now)}
            /\ resp' = TokenResponse("POST /login", "server", 200, generateToken(u, now), u)
    /\ UNCHANGED <<now, store, nextId, objects, nextUuid, reqs, upvoted>>

\* POST /login of "index" and "legacy"
LoginIndex(app, u, o) ==
    /\ Ready
    /\ Cardinality(issued) < MaxTokens
    /\ IF o = "throw"
       THEN /\ resp' = Response("POST /login", app, NoHeader, 0, 500, 1, o, "error", [user |-> u])
            /\ UNCHANGED issued
       ELSE IF o = "error"
       THEN /\ resp' = Response("POST /login", app, NoHeader, 0, 401, 1, o, "error", [user |-> u])
            /\ UNCHANGED issued
       ELSE /\ issued' = issued \cup {Issuance(generateTokenIndex(u, now), TokenPayloadIndex(u), now)}
            /\ resp' = TokenResponse("POST /login", app, 200, generateTokenIndex(u, now), u)
    /\ UNCHANGED <<now, store, nextId, objects, nextUuid, reqs, upvoted>>

\* POST /admin/login of "server": no try/catch, a throw ends without response
AdminLogin(u, o) ==
    /\ Ready
    /\ Cardinality(issued) < MaxTokens
    /\ IF o = "throw"
       THEN /\ resp' = Response("POST /admin/login", "server", NoHeader, 0, NoResponse, 1, o,
                                "none", [user |-> u])
            /\ UNCHANGED issued
       ELSE IF o = "error"
       THEN /\ resp' = Response("POST /admin/login", "server", NoHeader, 0, 401, 1, o, "error", [user |-> u])
            /\ UNCHANGED issued
       ELSE IF Falsy(MetadataAdmin(u))
       THEN /\ resp' = Response("POST /admin/login", "server", NoHeader, 0, 403, 1, o, "error", [user |-> u])
            /\ UNCHANGED issued
       ELSE /\ issued' = issued \cup {Issuance(adminLoginToken(u, now), AdminLoginPayload(u), now)}
            /\ resp' = TokenResponse("POST /admin/login", "server", 200, adminLoginToken(u, now), u)
    /\ UNCHANGED <<now, store, nextId, objects, nextUuid, reqs, upvoted>>

\* POST /signup of "server": o is the outcome of auth.signUp (error: the
\* address is taken or invalid), po of the insert into profiles
Signup(u, o, po) ==
    /\ Ready
    /\ Cardinality(issued) < MaxTokens
    /\ IF o = "throw"
       THEN /\ resp' = Response("POST /signup", "server", NoHeader, 0, 500, 1, o, "error", [user |-> u])
            /\ UNCHANGED issued
       ELSE IF o = "error"
       THEN /\ resp' = Response("POST /signup", "server", NoHeader, 0, 400, 1, o, "error", [user |-> u])
            /\ UNCHANGED issued
       ELSE IF po # "ok"
       THEN /\ resp' = Response("POST /signup", "server", NoHeader, 0, 500, 2, po, "error", [user |-> u])
            /\ UNCHANGED issued
       ELSE /\ issued' = issued \cup {Issuance(generateToken(u, now), TokenPayload(u), now)}
            /\ resp' = [TokenResponse("POST /signup", "server", 201, generateToken(u, now), u)
                            EXCEPT !.calls = 2]
    /\ UNCHANGED <<now, store, nextId, objects, nextUuid, reqs, upvoted>>

\* POST /signup of "index" and "legacy": no profile row is written
SignupIndex(app, u, o) ==
    /\ Ready
    /\ Cardinality(issued) < MaxTokens
    /\ IF o = "throw"
       THEN /\ resp' = Response("POST /signup", app, NoHeader, 0, 500, 1, o, "error", [user |-> u])
            /\ UNCHANGED issued
       ELSE IF o = "error"
       THEN /\ resp' = Response("POST /signup", app, NoHeader, 0, 400, 1, o, "error", [user |-> u])
            /\ UNCHANGED issued
       ELSE /\ issued' = issued \cup {Issuance(generateTokenIndex(u, now), TokenPayloadIndex(u), now)}
            /\ resp' = TokenResponse("POST /signup", app, 201, generateTokenIndex(u, now), u)
    /\ UNCHANGED <<now, store, nextId, objects, nextUuid, reqs, upvoted>>

\* ------------------------------------------------------- request plumbing
\* a request in flight: pc names the external call it awaits next, calls
\* counts the external calls it has made, loc are the handler's locals
Req(route, app, hdr, cid, pc, calls, uid, loc) ==
    [route |-> route, app |-> app, hdr |-> hdr, cid |-> cid, pc |-> pc,
     calls |-> calls, uid |-> uid, loc |-> loc, at |-> now]

NoLoc == [none |-> TRUE]

\* a response sent on arrival: nothing but resp changes
AnswerWith(route, app, h, cid, code, calls, last, body, input) ==
    /\ Ready
    /\ resp' = Response(route, app, h, cid, code, calls, last, body, input)
    /\ UNCHANGED <<now, issued, store, nextId, objects, nextUuid, reqs, upvoted>>

Answer(route, app, h, cid, code, calls, last, body) ==
    AnswerWith(route, app, h, cid, code, calls, last, body, NoLoc)

\* the handler starts and awaits its first external call
Start(i, r) ==
    /\ reqs' = [reqs EXCEPT ![i] = r]
    /\ resp' = NoResp
    /\ UNCHANGED <<now, issued, store, nextId, objects, nextUuid, upvoted>>

\* the handler of slot i goes on to await its next external call
Goto(i, pc, loc) ==
    reqs' = [reqs EXCEPT ![i] = [@ EXCEPT !.pc = pc, !.calls = @ + 1, !.loc = loc]]

\* the handler of slot i responds and ends, its locals being loc
FinishWith(i, o, code, body, loc) ==
    /\ reqs' = [reqs EXCEPT ![i] = Idle]
    /\ resp' = [Response(reqs[i].route, reqs[i].app, reqs[i].hdr, reqs[i].cid, code,
                         reqs[i].calls + 1, o, body, loc)
                    EXCEPT !.at = reqs[i].at]

Finish(i, o, code, body) == FinishWith(i, o, code, body, reqs[i].loc)

\* ------------------------------------------------------ read-only routes
\* GET /tags of "server" and "index": no external call
GetTags(app, h) ==
    LET g == authenticateToken(h, now)
    IN  IF g.code # Pass
        THEN Answer("GET /tags", app, h, 0, g.code, 0, "none", g.msg)
        ELSE Answer("GET /tags", app, h, 0, 200, 0, "none", "tags")

\* the ids of the rows select('*').eq('user_id', userId) matches, with
\* .contains('tags', [tag]) when filter holds
Matching(userId, tag, filter) ==
    {id \in Ids : /\ Exists(store, id)
                  /\ store[id].user_id = userId
                  /\ filter => Includes(store[id].tags, tag)}

\* .order('created_at', { ascending: false }): rows are created in the
\* order of their ids
RECURSIVE NewestFirst(_)
NewestFirst(S) ==
    IF S = {} THEN << >>
    ELSE LET m == CHOOSE x \in S : \A y \in S : y <= x
         IN  <<m>> \o NewestFirst(S \ {m})

\* a select without .order(): the rows come in an order the store picks
AnyOrder(S) ==
    {r \in [1..Cardinality(S) -> S] : \A j, k \in 1..Cardinality(S) : r[j] = r[k] => j = k}

\* the rows the query of GET /complaints returns: "legacy" reads no tag
\* and states no order
ComplaintsQuery(app, userId, tag) ==
    IF app = "legacy" THEN AnyOrder(Matching(userId, tag, FALSE))
    ELSE {NewestFirst(Matching(userId, tag, ~Falsy(tag) /\ Includes(VALID_TAGS, tag)))}

\* GET /complaints of all three files: one select inside try/catch; tag is
\* req.query.tag
GetComplaints(app, h, tag, o) ==
    LET g == authenticateToken(h, now)
    IN  IF g.code # Pass
        THEN Answer("GET /complaints", app, h, 0, g.code, 0, "none", g.msg)
        ELSE IF o = "ok"
        THEN \E complaints \in ComplaintsQuery(app, g.user.id, tag) :
                AnswerWith("GET /complaints", app, h, 0, 200, 1, o, "complaints",
                           [tag |-> tag, complaints |-> complaints])
        ELSE IF o = "error"
        THEN Answer("GET /complaints", app, h, 0, 500, 1, o, "Error fetching complaints")
        ELSE Answer("GET /complaints", app, h, 0, 500, 1, o, "Unexpected error occurred")

\* GET /profile of "server": select on profiles inside try/catch; found says
\* whether the profile row exists
GetProfile(h, o, found) ==
    LET g == authenticateToken(h, now)
    IN  IF g.code # Pass
        THEN Answer("GET /profile", "server", h, 0, g.code, 0, "none", g.msg)
        ELSE IF o = "error"
        THEN Answer("GET /profile", "server", h, 0, 500, 1, o, "Error fetching profile")
        ELSE IF o = "throw"
        THEN Answer("GET /profile", "server", h, 0, 500, 1, o, "Unexpected error occurred")
        ELSE IF ~found
        THEN Answer("GET /profile", "server", h, 0, 404, 1, o, "Profile not found")
        ELSE Answer("GET /profile", "server", h, 0, 200, 1, o, "profile")

\* GET /profile of "index" and "legacy": answers from the token alone
GetProfileIndex(app, h) ==
    LET g == authenticateToken(h, now)
    IN  IF g.code # Pass
        THEN Answer("GET /profile", app, h, 0, g.code, 0, "none", g.msg)
        ELSE Answer("GET /profile", app, h, 0, 200, 0, "none", "User profile loaded")

\* GET /test-db of "index": an error of the select is thrown to the catch
TestDb(h, o) ==
    LET g == authenticateToken(h, now)
    IN  IF g.code # Pass
        THEN Answer("GET /test-db", "index", h, 0, g.code, 0, "none", g.msg)
        ELSE IF o = "ok"
        THEN Answer("GET /test-db", "index", h, 0, 200, 1, o, "Database connection successful")
        ELSE Answer("GET /test-db", "index", h, 0, 500, 1, o, "Database connection failed")

\* POST /profile/update of "server": name is req.body.display_name
ProfileUpdate(h, name, o, found) ==
    LET g == authenticateToken(h, now)
    IN  IF g.code # Pass
        THEN Answer("POST /profile/update", "server", h, 0, g.code, 0, "none", g.msg)
        ELSE IF Falsy(OrElse(g.user.id, Undefined))
        THEN Answer("POST /profile/update", "server", h, 0, 401, 0, "none", "Invalid token payload")
        ELSE IF Falsy(name)
        THEN Answer("POST /profile/update", "server", h, 0, 400, 0, "none", "Display name is required")
        ELSE IF o = "error"
        THEN Answer("POST /profile/update", "server", h, 0, 500, 1, o, "Failed to update profile")
        ELSE IF o = "throw"
        THEN Answer("POST /profile/update", "server", h, 0, 500, 1, o, "Server error")
        ELSE IF ~found
        THEN Answer("POST /profile/update", "server", h, 0, 404, 1, o, "Profile not found")
        ELSE Answer("POST /profile/update", "server", h, 0, 200, 1, o, "profile")

\* GET /admin/complaints of all three files: no try/catch
AdminGetComplaints(app, h, o) ==
    LET g == authenticateAdmin(h, now)
    IN  IF g.code # Pass
        THEN Answer("GET /admin/complaints", app, h, 0, g.code, 0, "none", g.msg)
        ELSE IF o = "ok"
        THEN Answer("GET /admin/complaints", app, h, 0, 200, 1, o, "complaints")
        ELSE IF o = "error"
        THEN Answer("GET /admin/complaints", app, h, 0, 500, 1, o, "Error fetching complaints")
        ELSE Answer("GET /admin/complaints", app, h, 0, NoResponse, 1, o, "none")

\* GET /admin/users of "index" and "legacy": no try/catch
AdminGetUsers(app, h, o) ==
    LET g == authenticateAdmin(h, now)
    IN  IF g.code # Pass
        THEN Answer("GET /admin/users", app, h, 0, g.code, 0, "none", g.msg)
        ELSE IF o = "ok"
        THEN Answer("GET /admin/users", app, h, 0, 200, 1, o, "users")
        ELSE IF o = "error"
        THEN Answer("GET /admin/users", app, h, 0, 500, 1, o, "Error fetching users")
        ELSE Answer("GET /admin/users", app, h, 0, NoResponse, 1, o, "none")

\* GET /admin/profile of "server": an error of the select is answered 404
AdminProfile(h, o) ==
    LET g == authenticateAdmin(h, now)
    IN  IF g.code # Pass
        THEN Answer("GET /admin/profile", "server", h, 0, g.code, 0, "none", g.msg)
        ELSE IF o = "ok"
        THEN Answer("GET /admin/profile", "server", h, 0, 200, 1, o, "profile")
        ELSE IF o = "error"
        THEN Answer("GET /admin/profile", "server", h, 0, 404, 1, o, "Admin profile not found")
        ELSE Answer("GET /admin/profile", "server", h, 0, 500, 1, o, "Error fetching admin profile")

\* the number of selects GET /admin/statistics makes: the total, one per
\* status, the recent rows, one per tag
StatisticsCalls == 1 + 3 + 1 + Len(VALID_TAGS)

\* GET /admin/statistics of "server": the first failk - 1 selects succeed and
\* select failk fails (failk = 0: none fails); every failure is thrown
AdminStatistics(h, failk) ==
    LET g == isAdmin(h, now)
    IN  IF g.code # Pass
        THEN Answer("GET /admin/statistics", "server", h, 0, g.code, 0, "none", g.msg)
        ELSE IF failk = 0
        THEN Answer("GET /admin/statistics", "server", h, 0, 200, StatisticsCalls, "ok", "statistics")
        ELSE Answer("GET /admin/statistics", "server", h, 0, 500, failk, "error",
                    "Error fetching statistics")

\* GET /admin/complaints/:id of "server": .single() reports a missing row as
\* an error, and every error is thrown to the catch
AdminGetComplaint(h, cid, o) ==
    LET g == isAdmin(h, now)
    IN  IF g.code # Pass
        THEN Answer("GET /admin/complaints/:id", "server", h, cid, g.code, 0, "none", g.msg)
        ELSE IF o = "ok" /\ Exists(store, cid)
        THEN Answer("GET /admin/complaints/:id", "server", h, cid, 200, 1, o, "complaint")
        ELSE Answer("GET /admin/complaints/:id", "server", h, cid, 500, 1, o,
                    "Error fetching complaint details")

\* ------------------------------------------------------------ complaint rows
\* an insert that names no status
NewRow_StatusOmitted(uid, title, description, tags, image_url) ==
    [exists |-> TRUE, user_id |-> uid, title |-> title, description |-> description,
     status |-> Null, tags |-> tags, image_url |-> image_url,
     upvotes |-> NullInt, assigned_to |-> Null, admin_comments |-> << >>]

\* the row insert([{ user_id, title, description, status: 'pending', tags,
\* image_url }]) hands to the table; upvotes, which the insert does not
\* name, is filled in by the table
NewRow(uid, title, description, tags, image_url) ==
    [exists |-> TRUE, user_id |-> uid, title |-> title, description |-> description,
     status |-> "pending", tags |-> tags, image_url |-> image_url,
     upvotes |-> NullInt, assigned_to |-> Null, admin_comments |-> << >>]

\* (complaint.upvotes || 0)
OrZero(n) == IF n = NullInt \/ n = 0 THEN 0 ELSE n

\* requests in flight on complaint cid whose route is r
InFlight(r, cid) == {i \in Slots : reqs[i] # Idle /\ reqs[i].route = r /\ reqs[i].cid = cid}

\* complaint.user_id !== userId
NotOwner_Never(complaint, userId) == FALSE

NotOwner(complaint, userId) == complaint.user_id # userId

\* ------------------------------------------------ POST /complaints/:id/upvote
\* arrival, "server" and "index": the gate, then the select is issued
Upvote_Arrive(i, app, h, cid) ==
    /\ Free(i)
    /\ upvoted[cid] + Cardinality(InFlight("POST /complaints/:id/upvote", cid)) < MaxUpvotes
    /\ LET g == authenticateToken(h, now)
       IN  IF g.code # Pass
           THEN Answer("POST /complaints/:id/upvote", app, h, cid, g.code, 0, "none", g.msg)
           ELSE Start(i, Req("POST /complaints/:id/upvote", app, h, cid, "upvote.fetch", 0,
                             g.user.id, NoLoc))

\* select('upvotes').eq('id', complaintId).single(), then newUpvotes
Upvote_Fetch(i, o) ==
    /\ At(i, "upvote.fetch")
    /\ IF o = "throw"
       THEN Finish(i, o, 500, "Error processing upvote")
       ELSE IF o = "error" \/ ~Exists(store, reqs[i].cid)
       THEN Finish(i, o, 404, "Complaint not found")
       ELSE /\ Goto(i, "upvote.update",
                    [newUpvotes |-> OrZero(store[reqs[i].cid].upvotes) + 1])
            /\ resp' = NoResp
    /\ UNCHANGED <<now, issued, store, nextId, objects, nextUuid, upvoted>>

\* update({ upvotes: newUpvotes }).eq('id', complaintId).select().single()
Upvote_Update(i, o) ==
    /\ At(i, "upvote.update")
    /\ IF o = "ok" /\ Exists(store, reqs[i].cid)
       THEN /\ store' = [store EXCEPT ![reqs[i].cid].upvotes = reqs[i].loc.newUpvotes]
            /\ upvoted' = [upvoted EXCEPT ![reqs[i].cid] = @ + 1]
            /\ Finish(i, o, 200, "complaint")
       ELSE /\ Finish(i, o, 500, "Error processing upvote")
            /\ UNCHANGED <<store, upvoted>>
    /\ UNCHANGED <<now, issued, nextId, objects, nextUuid>>

\* ------------------------------------------------------ DELETE /complaints/:id
\* arrival, "server": the route has no middleware, req.user?.id is undefined
DeleteComplaint_Arrive(i, h, cid) ==
    /\ Free(i)
    /\ LET g == noGate(h, now)
       IN  Start(i, Req("DELETE /complaints/:id", "server", h, cid, "delete.fetch", 0,
                        g.user.id, NoLoc))

\* select('id, user_id').eq('id', complaintId).single(), then the owner check
DeleteComplaint_Fetch(i, o) ==
    /\ At(i, "delete.fetch")
    /\ IF o = "throw"
       THEN Finish(i, o, 500, "Server error")
       ELSE IF o = "error" \/ ~Exists(store, reqs[i].cid)
       THEN Finish(i, o, 404, "Complaint not found")
       ELSE LET complaint == [id |-> reqs[i].cid, user_id |-> store[reqs[i].cid].user_id]
            IN  IF NotOwner(complaint, reqs[i].uid)
                THEN FinishWith(i, o, 403, "Unauthorized to delete this complaint",
                                [complaint |-> complaint])
                ELSE /\ Goto(i, "complaint.delete", [complaint |-> complaint])
                     /\ resp' = NoResp
    /\ UNCHANGED <<now, issued, store, nextId, objects, nextUuid, upvoted>>

\* --------------------------------------------- DELETE /admin/complaints/:id
\* arrival, "server": the isAdmin gate, then the delete is issued
AdminDelete_Arrive(i, h, cid) ==
    /\ Free(i)
    /\ LET g == isAdmin(h, now)
       IN  IF g.code # Pass
           THEN Answer("DELETE /admin/complaints/:id", "server", h, cid, g.code, 0, "none", g.msg)
           ELSE Start(i, Req("DELETE /admin/complaints/:id", "server", h, cid,
                             "complaint.delete", 0, g.user.id, NoLoc))

\* from('complaints').delete().eq('id', id) of both delete routes; the
\* owner's route catches a throw, the admin's route has no try/catch
Complaint_Delete(i, o) ==
    /\ At(i, "complaint.delete")
    /\ IF o = "ok"
       THEN /\ store' = [store EXCEPT ![reqs[i].cid] = NoRow]
            /\ Finish(i, o, 200, "Complaint deleted successfully")
       ELSE /\ UNCHANGED store
            /\ IF reqs[i].route = "DELETE /complaints/:id"
               THEN Finish(i, o, 500, IF o = "error" THEN "Failed to delete complaint"
                                   ELSE "Server error")
               ELSE IF o = "error" THEN Finish(i, o, 500, "error.message")
               ELSE Finish(i, o, NoResponse, "none")
    /\ UNCHANGED <<now, issued, nextId, objects, nextUuid, upvoted>>

\* --------------------------------------------------------- object storage
\* `${uuidv4()}.jpg` for the n-th uuid
FileName(n) == ToString(n) \o ".jpg"

\* the key `complaints/${fileName}` in bucket complaint-images
ObjectKey(fileName) == <<"complaints", fileName>>

\* getPublicUrl(`complaints/${fileName}`).data.publicUrl, as path segments
PublicUrl(fileName) ==
    <<"https:", "", "project.supabase.co", "storage", "v1", "object", "public",
      "complaint-images", "complaints", fileName>>

\* url.split('/').pop()
LastSegment(url) == url[Len(url)]

\* ------------------------------------------------ DELETE /complaints/:id/image
\* arrival, "server": the gate, then the select is issued
DeleteImage_Arrive(i, h, cid) ==
    /\ Free(i)
    /\ LET g == authenticateToken(h, now)
       IN  IF g.code # Pass
           THEN Answer("DELETE /complaints/:id/image", "server", h, cid, g.code, 0, "none", g.msg)
           ELSE Start(i, Req("DELETE /complaints/:id/image", "server", h, cid,
                             "image.fetch", 0, g.user.id, NoLoc))

\* select('user_id, image_url').eq('id', complaintId).single(), the owner
\* check, and the file name taken from the stored URL
DeleteImage_Fetch(i, o) ==
    /\ At(i, "image.fetch")
    /\ IF o = "throw"
       THEN Finish(i, o, 500, "Error deleting image")
       ELSE IF o = "error" \/ ~Exists(store, reqs[i].cid)
       THEN Finish(i, o, 404, "Complaint not found")
       ELSE IF NotOwner(store[reqs[i].cid], reqs[i].uid)
       THEN Finish(i, o, 403, "Unauthorized")
       ELSE IF store[reqs[i].cid].image_url = NullUrl
       THEN Finish(i, o, 200, "Image deleted successfully")
       ELSE /\ Goto(i, "image.remove",
                    [fileName |-> LastSegment(store[reqs[i].cid].image_url)])
            /\ resp' = NoResp
    /\ UNCHANGED <<now, issued, store, nextId, objects, nextUuid, upvoted>>

\* the storage delete with its deleteError not looked at
DeleteImage_Remove_IgnoreError(i, o) ==
    /\ At(i, "image.remove")
    /\ objects' = IF o = "ok" THEN objects \ {ObjectKey(reqs[i].loc.fileName)} ELSE objects
    /\ Goto(i, "image.update", reqs[i].loc)
    /\ resp' = NoResp
    /\ UNCHANGED <<now, issued, store, nextId, nextUuid, upvoted>>

\* storage.from('complaint-images').remove([`complaints/${fileName}`])
DeleteImage_Remove(i, o) ==
    /\ At(i, "image.remove")
    /\ IF o = "ok"
       THEN /\ objects' = objects \ {ObjectKey(reqs[i].loc.fileName)}
            /\ Goto(i, "image.update", reqs[i].loc)
            /\ resp' = NoResp
       ELSE /\ Finish(i, o, 500, "Error deleting image")
            /\ UNCHANGED objects
    /\ UNCHANGED <<now, issued, store, nextId, nextUuid, upvoted>>

\* update({ image_url: null }).eq('id', complaintId): no row matched is no error
DeleteImage_Update(i, o) ==
    /\ At(i, "image.update")
    /\ IF o = "ok"
       THEN /\ store' = [store EXCEPT ![reqs[i].cid] =
                            IF Exists(store, reqs[i].cid)
                            THEN [@ EXCEPT !.image_url = NullUrl] ELSE @]
            /\ Finish(i, o, 200, "Image deleted successfully")
       ELSE /\ Finish(i, o, 500, IF o = "error" THEN "Error updating complaint"
                              ELSE "Error deleting image")
            /\ UNCHANGED store
    /\ UNCHANGED <<now, issued, nextId, objects, nextUuid, upvoted>>

\* ---------------------------------------- POST /admin/complaints/:id/comment
\* the entries of admin_comments stored on the row, none when it is absent
StoredComments(st, cid) == IF Exists(st, cid) THEN st[cid].admin_comments ELSE << >>

\* arrival: the isAdmin gate and the check of req.body.comment
Comment_Arrive(i, h, cid, comment) ==
    /\ Free(i)
    /\ Len(StoredComments(store, cid))
         + Cardinality(InFlight("POST /admin/complaints/:id/comment", cid)) < MaxComments
    /\ LET g == isAdmin(h, now)
       IN  IF g.code # Pass
           THEN Answer("POST /admin/complaints/:id/comment", "server", h, cid, g.code, 0,
                       "none", g.msg)
           ELSE IF Falsy(comment)
           THEN AnswerWith("POST /admin/complaints/:id/comment", "server", h, cid, 400, 0,
                           "none", "Comment is required", [comment |-> comment])
           ELSE Start(i, Req("POST /admin/complaints/:id/comment", "server", h, cid,
                             "comment.fetch", 0, g.user.id,
                             [comment |-> comment, comments |-> << >>]))

\* select('admin_comments').eq('id', id).single(), then comments.push of
\* { text, timestamp, admin_id }
Comment_Fetch(i, o) ==
    /\ At(i, "comment.fetch")
    /\ IF o # "ok" \/ ~Exists(store, reqs[i].cid)
       THEN Finish(i, o, 500, "Error adding comment")
       ELSE /\ Goto(i, "comment.update",
                    [reqs[i].loc EXCEPT !.comments =
                        Append(store[reqs[i].cid].admin_comments,
                               [text |-> reqs[i].loc.comment, timestamp |-> now,
                                admin_id |-> reqs[i].uid])])
            /\ resp' = NoResp
    /\ UNCHANGED <<now, issued, store, nextId, objects, nextUuid, upvoted>>

\* update({ admin_comments: comments }).eq('id', id): no row matched is no error
Comment_Update(i, o) ==
    /\ At(i, "comment.update")
    /\ IF o = "ok"
       THEN /\ store' = [store EXCEPT ![reqs[i].cid] =
                            IF Exists(store, reqs[i].cid)
                            THEN [@ EXCEPT !.admin_comments = reqs[i].loc.comments] ELSE @]
            /\ Finish(i, o, 200, "Comment added successfully")
       ELSE /\ Finish(i, o, 500, "Error adding comment")
            /\ UNCHANGED store
    /\ UNCHANGED <<now, issued, nextId, objects, nextUuid, upvoted>>

\* ------------------------------------------ PUT /admin/complaints/:id/status
STATUSES == <<"pending", "working", "finished">>

\* arrival, "server": the isAdmin gate and the check of req.body.status
AdminStatus_Arrive(i, h, cid, status) ==
    /\ Free(i)
    /\ LET g == isAdmin(h, now)
       IN  IF g.code # Pass
           THEN Answer("PUT /admin/complaints/:id/status", "server", h, cid, g.code, 0, "none", g.msg)
           ELSE IF ~Includes(STATUSES, status)
           THEN AnswerWith("PUT /admin/complaints/:id/status", "server", h, cid, 400, 0, "none",
                           "Invalid status value", [status |-> status])
           ELSE Start(i, Req("PUT /admin/complaints/:id/status", "server", h, cid,
                             "status.update", 0, g.user.id, [status |-> status]))

\* arrival, "index" and "legacy": the authenticateAdmin gate, no check
AdminStatusIndex_Arrive(i, app, h, cid, status) ==
    /\ Free(i)
    /\ LET g == authenticateAdmin(h, now)
       IN  IF g.code # Pass
           THEN Answer("PUT /admin/complaints/:id/status", app, h, cid, g.code, 0, "none", g.msg)
           ELSE Start(i, Req("PUT /admin/complaints/:id/status", app, h, cid,
                             "status.update", 0, g.user.id, [status |-> status]))

\* update({ status }).eq('id', id): an undefined status is dropped from the
\* JSON body, no row matched is no error; no try/catch in any of the files
AdminStatus_Update(i, o) ==
    /\ At(i, "status.update")
    /\ IF o = "ok"
       THEN /\ store' = [store EXCEPT ![reqs[i].cid] =
                            IF Exists(store, reqs[i].cid) /\ reqs[i].loc.status # Undefined
                            THEN [@ EXCEPT !.status = reqs[i].loc.status] ELSE @]
            /\ Finish(i, o, 200, IF reqs[i].app = "server" THEN "Complaint marked as status"
                               ELSE "Complaint status updated")
       ELSE /\ UNCHANGED store
            /\ IF o = "error"
               THEN Finish(i, o, 500, IF reqs[i].app = "server" THEN "error.message"
                                   ELSE "Error updating status")
               ELSE Finish(i, o, NoResponse, "none")
    /\ UNCHANGED <<now, issued, nextId, objects, nextUuid, upvoted>>

\* ------------------------------------------ PUT /admin/complaints/:id/assign
\* arrival, "index" and "legacy": the authenticateAdmin gate
AdminAssign_Arrive(i, app, h, cid, assigned_to) ==
    /\ Free(i)
    /\ LET g == authenticateAdmin(h, now)
       IN  IF g.code # Pass
           THEN Answer("PUT /admin/complaints/:id/assign", app, h, cid, g.code, 0, "none", g.msg)
           ELSE Start(i, Req("PUT /admin/complaints/:id/assign", app, h, cid,
                             "assign.update", 0, g.user.id, [assigned_to |-> assigned_to]))

\* update({ assigned_to }).eq('id', id)
AdminAssign_Update(i, o) ==
    /\ At(i, "assign.update")
    /\ IF o = "ok"
       THEN /\ store' = [store EXCEPT ![reqs[i].cid] =
                            IF Exists(store, reqs[i].cid)
                               /\ reqs[i].loc.assigned_to # Undefined
                            THEN [@ EXCEPT !.assigned_to = reqs[i].loc.assigned_to] ELSE @]
            /\ Finish(i, o, 200, "Complaint assigned successfully")
       ELSE /\ UNCHANGED store
            /\ IF o = "error" THEN Finish(i, o, 500, "Error assigning complaint")
               ELSE Finish(i, o, NoResponse, "none")
    /\ UNCHANGED <<now, issued, nextId, objects, nextUuid, upvoted>>

\* ---------------------------------------------------------------- JSON.parse
\* a JSON text is a sequence of lexemes: punctuation, a quoted string, or a
\* bare word (which is no JSON value)
LBracket == [k |-> "punct", s |-> "["]
RBracket == [k |-> "punct", s |-> "]"]
Comma == [k |-> "punct", s |-> ","]
Quoted(w) == [k |-> "str", s |-> w]
Bare(w) == [k |-> "word", s |-> w]

\* the elements between the brackets: str (, str)*
ArrayBodyOk(b) ==
    /\ Len(b) % 2 = 1
    /\ \A k \in 1..Len(b) : IF k % 2 = 1 THEN b[k].k = "str" ELSE b[k] = Comma

\* JSON.parse(text): ok is FALSE when it throws SyntaxError; kind is the type
\* of the value, v its elements (an array) or the one string
JSONParse(text) ==
    IF Len(text) = 1 /\ text[1].k = "str"
    THEN [ok |-> TRUE, kind |-> "string", v |-> <<text[1].s>>]
    ELSE IF Len(text) = 2 /\ text[1] = LBracket /\ text[2] = RBracket
    THEN [ok |-> TRUE, kind |-> "array", v |-> << >>]
    ELSE IF Len(text) > 2 /\ text[1] = LBracket /\ text[Len(text)] = RBracket
            /\ ArrayBodyOk(SubSeq(text, 2, Len(text) - 1))
    THEN [ok |-> TRUE, kind |-> "array",
          v |-> [k \in 1..((Len(text) - 1) \div 2) |-> text[2 * k].s]]
    ELSE [ok |-> FALSE, kind |-> "none", v |-> << >>]

\* req.body.tags: absent, an array of strings, or a string holding a text
NoTags == [t |-> "undefined", v |-> << >>]
ArrayTags(arr) == [t |-> "array", v |-> arr]
StringTags(text) == [t |-> "string", text |-> text]

\* the tag parsing without the filter
ParseTags_NoFilter(tags) ==
    LET parsed == IF tags.t = "array" THEN [ok |-> TRUE, kind |-> "array", v |-> tags.v]
                  ELSE IF tags.t = "string" THEN JSONParse(tags.text)
                  ELSE [ok |-> TRUE, kind |-> "array", v |-> << >>]
    IN  IF ~parsed.ok \/ parsed.kind # "array"
        THEN [ok |-> FALSE, tags |-> << >>]
        ELSE [ok |-> TRUE, tags |-> parsed.v]

\* the tag parsing of POST /submit of "server": ok is FALSE where the code
\* answers 400 'Invalid tags format' (JSON.parse threw, or the parsed value
\* has no filter method); tags is parsedTags after the filter
ParseTags(tags) ==
    LET parsed == IF tags.t = "array" THEN [ok |-> TRUE, kind |-> "array", v |-> tags.v]
                  ELSE IF tags.t = "string" THEN JSONParse(tags.text)
                  ELSE [ok |-> TRUE, kind |-> "array", v |-> << >>]
    IN  IF ~parsed.ok \/ parsed.kind # "array"
        THEN [ok |-> FALSE, tags |-> << >>]
        ELSE [ok |-> TRUE, tags |-> FilterIncluded(parsed.v, VALID_TAGS)]

\* ------------------------------------------------------------ POST /submit
\* req.file: absent, or the part multer was sent
NoFile == [present |-> FALSE, image |-> FALSE, size |-> 0, decodes |-> FALSE]
File(image, size, decodes) ==
    [present |-> TRUE, image |-> image, size |-> size, decodes |-> decodes]

\* limits.fileSize of multer
FileSizeLimit == 5 * 1024 * 1024

\* what a submit request carried, before the handler built a row from it
SubmitInput(body, file) == [row |-> NoRow, body |-> body, file |-> file, fileName |-> ""]

\* a submit needs a row id: at most MaxComplaints rows are ever inserted
RoomToSubmit ==
    nextId + Cardinality({i \in Slots : reqs[i] # Idle /\ reqs[i].route = "POST /submit"})
        <= MaxComplaints

\* a submit with a file needs a file name: at most MaxUuids are generated
RoomToUpload(file) ==
    file.present =>
        nextUuid + Cardinality({i \in Slots : reqs[i].pc = "submit.process"}) <= MaxUuids

\* user_id: req.user.id of the inserted row, whatever the body holds
RowOwner_FromBody(user, body) == OrElse(body.user_id, user.id)

RowOwner(user, body) == user.id

\* arrival, "server": authenticateToken, upload.single('image'), then the
\* checks of title, description and tags; a multer error goes to the
\* framework's error handler, which answers 500
Submit_Arrive(i, h, body, file) ==
    /\ Free(i)
    /\ RoomToSubmit
    /\ RoomToUpload(file)
    /\ LET g == authenticateToken(h, now)
           p == ParseTags(body.tags)
       IN  IF g.code # Pass
           THEN Answer("POST /submit", "server", h, 0, g.code, 0, "none", g.msg)
           ELSE IF file.present /\ ~file.image
           THEN AnswerWith("POST /submit", "server", h, 0, 500, 0, "none", "Only image files are allowed!",
                           SubmitInput(body, file))
           ELSE IF file.present /\ file.size > FileSizeLimit
           THEN AnswerWith("POST /submit", "server", h, 0, 500, 0, "none", "File too large",
                           SubmitInput(body, file))
           ELSE IF Falsy(body.title) \/ Falsy(body.description)
           THEN AnswerWith("POST /submit", "server", h, 0, 400, 0, "none",
                           "Title and description are required",
                           SubmitInput(body, file))
           ELSE IF ~p.ok
           THEN AnswerWith("POST /submit", "server", h, 0, 400, 0, "none", "Invalid tags format",
                           SubmitInput(body, file))
           ELSE Start(i, Req("POST /submit", "server", h, 0,
                             IF file.present THEN "submit.process" ELSE "submit.insert", 0,
                             g.user.id,
                             [row |-> NewRow(RowOwner(g.user, body), body.title, body.description,
                                             p.tags, NullUrl),
                              body |-> body, file |-> file, fileName |-> ""]))

\* arrival, "index": tags must all be valid; tags.every of a non-empty
\* string throws outside the try, so the handler ends without a response
SubmitIndex_Arrive(i, h, body) ==
    /\ Free(i)
    /\ RoomToSubmit
    /\ LET g == authenticateToken(h, now)
       IN  IF g.code # Pass
           THEN Answer("POST /submit", "index", h, 0, g.code, 0, "none", g.msg)
           ELSE IF Falsy(body.title) \/ Falsy(body.description)
           THEN AnswerWith("POST /submit", "index", h, 0, 400, 0, "none",
                           "Title and description are required",
                           SubmitInput(body, NoFile))
           ELSE IF body.tags.t = "string" /\ body.tags.text # << >>
           THEN AnswerWith("POST /submit", "index", h, 0, NoResponse, 0, "none", "none",
                           SubmitInput(body, NoFile))
           ELSE IF body.tags.t = "array" /\ ~EveryIncluded(body.tags.v, VALID_TAGS)
           THEN AnswerWith("POST /submit", "index", h, 0, 400, 0, "none", "Invalid tags provided",
                           SubmitInput(body, NoFile))
           ELSE Start(i, Req("POST /submit", "index", h, 0, "submit.insert", 0, g.user.id,
                             [row |-> NewRow(RowOwner(g.user, body), body.title, body.description,
                                             IF body.tags.t = "array" THEN body.tags.v
                                             ELSE << >>, NullUrl),
                              body |-> body, file |-> NoFile, fileName |-> ""]))

\* arrival, "legacy": the insert names no tags
SubmitLegacy_Arrive(i, h, body) ==
    /\ Free(i)
    /\ RoomToSubmit
    /\ LET g == authenticateToken(h, now)
       IN  IF g.code # Pass
           THEN Answer("POST /submit", "legacy", h, 0, g.code, 0, "none", g.msg)
           ELSE IF Falsy(body.title) \/ Falsy(body.description)
           THEN AnswerWith("POST /submit", "legacy", h, 0, 400, 0, "none",
                           "Title and description are required",
                           SubmitInput(body, NoFile))
           ELSE Start(i, Req("POST /submit", "legacy", h, 0, "submit.insert", 0, g.user.id,
                             [row |-> NewRow(RowOwner(g.user, body), body.title, body.description,
                                             << >>, NullUrl),
                              body |-> body, file |-> NoFile, fileName |-> ""]))

\* processImage(req.file.buffer): sharp throws on a payload it cannot
\* decode; then the file name is generated
Submit_Process(i, o) ==
    /\ At(i, "submit.process")
    /\ IF o = "ok" /\ reqs[i].loc.file.decodes
       THEN /\ Goto(i, "submit.upload", [reqs[i].loc EXCEPT !.fileName = FileName(nextUuid)])
            /\ nextUuid' = nextUuid + 1
            /\ resp' = NoResp
       ELSE /\ Finish(i, o, 500, "Error processing image")
            /\ UNCHANGED nextUuid
    /\ UNCHANGED <<now, issued, store, nextId, objects, upvoted>>

\* uploadToStorage returning the public URL although the upload failed
Submit_Upload_IgnoreError(i, o) ==
    /\ At(i, "submit.upload")
    /\ objects' = IF o = "ok" THEN objects \cup {ObjectKey(reqs[i].loc.fileName)} ELSE objects
    /\ Goto(i, "submit.insert",
            [reqs[i].loc EXCEPT !.row.image_url = PublicUrl(reqs[i].loc.fileName)])
    /\ resp' = NoResp
    /\ UNCHANGED <<now, issued, store, nextId, nextUuid, upvoted>>

\* uploadToStorage(processedImage, fileName): upload with upsert: false
\* fails on a name already stored; then the public URL
Submit_Upload(i, o) ==
    /\ At(i, "submit.upload")
    /\ IF o = "ok" /\ ObjectKey(reqs[i].loc.fileName) \notin objects
       THEN /\ objects' = objects \cup {ObjectKey(reqs[i].loc.fileName)}
            /\ Goto(i, "submit.insert",
                    [reqs[i].loc EXCEPT !.row.image_url = PublicUrl(reqs[i].loc.fileName)])
            /\ resp' = NoResp
       ELSE /\ Finish(i, o, 500, "Error processing image")
            /\ UNCHANGED objects
    /\ UNCHANGED <<now, issued, store, nextId, nextUuid, upvoted>>

\* what the table gives the upvotes column of a row inserted without it:
\* the schema is the store's, the handlers read the column as (upvotes || 0)
UpvotesDefault == {NullInt, 0}

\* from('complaints').insert([row]).select('*') of all three files
Submit_Insert(i, o) ==
    /\ At(i, "submit.insert")
    /\ IF o = "ok"
       THEN /\ \E upvotes \in UpvotesDefault :
                    store' = [store EXCEPT ![nextId] =
                                 [reqs[i].loc.row EXCEPT !.upvotes = upvotes]]
            /\ nextId' = nextId + 1
            /\ reqs' = [reqs EXCEPT ![i] = Idle]
            /\ resp' = [Response("POST /submit", reqs[i].app, reqs[i].hdr, nextId, 201,
                                 reqs[i].calls + 1, o, "Complaint submitted successfully",
                                 reqs[i].loc)
                            EXCEPT !.at = reqs[i].at]
       ELSE /\ Finish(i, o, 500, IF o = "error" THEN "Error inserting complaint"
                              ELSE "Unexpected error occurred")
            /\ UNCHANGED <<store, nextId>>
    /\ UNCHANGED <<now, issued, objects, nextUuid, upvoted>>

\* ------------------------------------------------------------ request inputs
Apps == {"server", "index", "legacy"}

Titles == {"", "Broken light"}
Descriptions == {Undefined, "Hallway B"}

TagInputs ==
    {NoTags,
     ArrayTags(<<"electricity", "bogus">>),
     ArrayTags(<<"canteen">>),
     StringTags(<<LBracket, Quoted("bogus"), Comma, Quoted("campus"), RBracket>>),
     StringTags(<<Quoted("campus")>>),
     StringTags(<<Bare("campus")>>)}

\* req.body of POST /submit; user_id, status and upvotes are fields no
\* handler reads: a client sends none of them or all of them
Bodies ==
    {body \in [title : Titles, description : Descriptions, tags : TagInputs,
               user_id : {Undefined, "u2"}, status : {Undefined, "finished"},
               upvotes : {NullInt, 5}] :
        /\ body.user_id = Undefined <=> body.status = Undefined
        /\ body.user_id = Undefined <=> body.upvotes = NullInt}

Files ==
    {NoFile, File(TRUE, 1024, TRUE), File(TRUE, 1024, FALSE), File(FALSE, 1024, TRUE),
     File(TRUE, FileSizeLimit + 1, TRUE)}

\* JSON.stringify(arr) as a client sends it in a form field
RECURSIVE JSONElements(_)
JSONElements(arr) ==
    IF arr = << >> THEN << >>
    ELSE IF Len(arr) = 1 THEN <<Quoted(arr[1])>>
    ELSE <<Quoted(arr[1]), Comma>> \o JSONElements(Tail(arr))

JSONStringify(arr) == <<LBracket>> \o JSONElements(arr) \o <<RBracket>>

\* tag lists of up to MaxTagLen entries, known and unknown, repeats included
TagLists ==
    UNION {[1..n -> {"electricity", "campus", "bogus"}] : n \in 0..MaxTagLen}

\* texts that are no JSON array: a JSON string, a bare word, an array cut
\* short, the empty text
NoListTexts ==
    {<<Quoted("campus")>>, <<Bare("campus")>>, <<LBracket, Quoted("campus")>>,
     <<LBracket, Quoted("campus"), Comma, RBracket>>, << >>}

\* req.query.tag of GET /complaints
TagQueries == {Undefined, "canteen", "bogus"}

StatusInputs == {"pending", "working", "finished", "closed", Undefined}

AssignInputs == {"team-1", Undefined}

\* ------------------------------------------------------------------- steps
Issue ==
    \/ \E u \in Users, o \in Outcomes : Login(u, o)
    \/ \E app \in {"index", "legacy"}, u \in Users, o \in Outcomes : LoginIndex(app, u, o)
    \/ \E u \in Users, o \in Outcomes : AdminLogin(u, o)

Reads ==
    \/ \E app \in {"server", "index"}, h \in Arrivals : GetTags(app, h)
    \/ \E app \in Apps, h \in Arrivals, tag \in TagQueries, o \in Outcomes :
            GetComplaints(app, h, tag, o)
    \/ \E h \in Arrivals, o \in Outcomes, found \in BOOLEAN : GetProfile(h, o, found)
    \/ \E app \in {"index", "legacy"}, h \in Arrivals : GetProfileIndex(app, h)
    \/ \E h \in Arrivals, o \in Outcomes : TestDb(h, o)
    \/ \E h \in Arrivals, name \in {Undefined, "Asha"}, o \in Outcomes, found \in BOOLEAN :
            ProfileUpdate(h, name, o, found)
    \/ \E app \in Apps, h \in Arrivals, o \in Outcomes : AdminGetComplaints(app, h, o)
    \/ \E app \in {"index", "legacy"}, h \in Arrivals, o \in Outcomes : AdminGetUsers(app, h, o)
    \/ \E h \in Arrivals, o \in Outcomes : AdminProfile(h, o)
    \/ \E h \in Arrivals, failk \in 0..StatisticsCalls : AdminStatistics(h, failk)
    \/ \E h \in Arrivals, cid \in Ids, o \in Outcomes : AdminGetComplaint(h, cid, o)

Submits ==
    \/ \E i \in Slots, h \in Arrivals, body \in Bodies, file \in Files :
            Submit_Arrive(i, h, body, file)
    \/ \E i \in Slots, h \in Arrivals, body \in Bodies : SubmitIndex_Arrive(i, h, body)
    \/ \E i \in Slots, h \in Arrivals, body \in Bodies : SubmitLegacy_Arrive(i, h, body)
    \/ \E i \in Slots, o \in Outcomes : Submit_Process(i, o)
    \/ \E i \in Slots, o \in Outcomes : Submit_Upload(i, o)
    \/ \E i \in Slots, o \in Outcomes : Submit_Insert(i, o)

Upvotes ==
    \/ \E i \in Slots, app \in {"server", "index"}, h \in Arrivals, cid \in Ids :
            Upvote_Arrive(i, app, h, cid)
    \/ \E i \in Slots, o \in Outcomes : Upvote_Fetch(i, o)
    \/ \E i \in Slots, o \in Outcomes : Upvote_Update(i, o)

Deletes ==
    \/ \E i \in Slots, h \in Arrivals, cid \in Ids : DeleteComplaint_Arrive(i, h, cid)
    \/ \E i \in Slots, o \in Outcomes : DeleteComplaint_Fetch(i, o)
    \/ \E i \in Slots, h \in Arrivals, cid \in Ids : AdminDelete_Arrive(i, h, cid)
    \/ \E i \in Slots, o \in Outcomes : Complaint_Delete(i, o)
    \/ \E i \in Slots, h \in Arrivals, cid \in Ids : DeleteImage_Arrive(i, h, cid)
    \/ \E i \in Slots, o \in Outcomes : DeleteImage_Fetch(i, o)
    \/ \E i \in Slots, o \in Outcomes : DeleteImage_Remove(i, o)
    \/ \E i \in Slots, o \in Outcomes : DeleteImage_Update(i, o)

Admin ==
    \/ \E i \in Slots, h \in Arrivals, cid \in Ids, st \in StatusInputs :
            AdminStatus_Arrive(i, h, cid, st)
    \/ \E i \in Slots, app \in {"index", "legacy"}, h \in Arrivals, cid \in Ids,
          st \in StatusInputs : AdminStatusIndex_Arrive(i, app, h, cid, st)
    \/ \E i \in Slots, o \in Outcomes : AdminStatus_Update(i, o)
    \/ \E i \in Slots, app \in {"index", "legacy"}, h \in Arrivals, cid \in Ids,
          a \in AssignInputs : AdminAssign_Arrive(i, app, h, cid, a)
    \/ \E i \in Slots, o \in Outcomes : AdminAssign_Update(i, o)

Signups ==
    \/ \E u \in NewUsers, o \in Outcomes, po \in Outcomes : Signup(u, o, po)
    \/ \E app \in {"index", "legacy"}, u \in NewUsers, o \in Outcomes : SignupIndex(app, u, o)

Next == Deliver \/ Tick \/ Issue \/ Signups \/ Reads \/ Submits \/ Upvotes \/ Deletes \/ Admin

Spec == Init /\ [][Next]_vars

\* ----------------------------------------------------- the authorization layer
\* Token issuance, the clock and every gated route that needs no stored
\* complaint, one request at a time.  No complaint is submitted here, so the
\* fetch of an upvote or an image removal finds no row and the admin's
\* writes match no row.
AuthNext ==
    \/ Deliver
    \/ Tick
    \/ Issue
    \/ Reads
    \/ \E app \in {"server", "index"}, h \in Arrivals : Upvote_Arrive(1, app, h, 1)
    \/ \E o \in Outcomes : Upvote_Fetch(1, o)
    \/ \E h \in Arrivals : DeleteImage_Arrive(1, h, 1)
    \/ \E o \in Outcomes : DeleteImage_Fetch(1, o)
    \/ \E h \in Arrivals : AdminDelete_Arrive(1, h, 1)
    \/ \E o \in Outcomes : Complaint_Delete(1, o)
    \/ \E h \in Arrivals, st \in {"working", "closed"} : AdminStatus_Arrive(1, h, 1, st)
    \/ \E app \in {"index", "legacy"}, h \in Arrivals :
            AdminStatusIndex_Arrive(1, app, h, 1, "working")
    \/ \E o \in Outcomes : AdminStatus_Update(1, o)
    \/ \E app \in {"index", "legacy"}, h \in Arrivals :
            AdminAssign_Arrive(1, app, h, 1, "team-1")
    \/ \E o \in Outcomes : AdminAssign_Update(1, o)

SpecAuth == Init /\ [][AuthNext]_vars

\* ------------------------------------------------------- the owner's routes
\* the credentials of the requests below: none, or a token the server issued
OwnerArrivals == IF resp = NoResp THEN {NoHeader} \cup {RawHeader(t) : t \in IssuedTokens} ELSE {}

OwnerBody ==
    [title |-> "Broken light", description |-> "Hallway B",
     tags |-> ArrayTags(<<"canteen">>), user_id |-> Undefined, status |-> Undefined,
     upvotes |-> NullInt]

\* Users log in, submit complaints with or without an image, and every
\* route that writes or deletes a complaint is called by its owner, by
\* another user, by the administrator and without credential, one
\* request at a time.
OwnerNext ==
    \/ Deliver
    \/ \E u \in Users : Login(u, "ok")
    \/ \E i \in {1}, h \in OwnerArrivals, file \in {NoFile, File(TRUE, 1024, TRUE)} :
            Submit_Arrive(i, h, OwnerBody, file)
    \/ \E i \in {1}, o \in Outcomes : Submit_Process(i, o)
    \/ \E i \in {1}, o \in Outcomes : Submit_Upload(i, o)
    \/ \E i \in {1}, o \in Outcomes : Submit_Insert(i, o)
    \/ \E i \in {1}, h \in OwnerArrivals, cid \in Ids : Upvote_Arrive(i, "server", h, cid)
    \/ \E i \in {1}, o \in Outcomes : Upvote_Fetch(i, o)
    \/ \E i \in {1}, o \in Outcomes : Upvote_Update(i, o)
    \/ \E i \in {1}, h \in OwnerArrivals, cid \in Ids : DeleteComplaint_Arrive(i, h, cid)
    \/ \E i \in {1}, o \in Outcomes : DeleteComplaint_Fetch(i, o)
    \/ \E i \in {1}, h \in OwnerArrivals, cid \in Ids : AdminDelete_Arrive(i, h, cid)
    \/ \E i \in {1}, o \in Outcomes : Complaint_Delete(i, o)
    \/ \E i \in {1}, h \in OwnerArrivals, cid \in Ids : DeleteImage_Arrive(i, h, cid)
    \/ \E i \in {1}, o \in Outcomes : DeleteImage_Fetch(i, o)
    \/ \E i \in {1}, o \in Outcomes : DeleteImage_Remove(i, o)
    \/ \E i \in {1}, o \in Outcomes : DeleteImage_Update(i, o)
    \/ \E i \in {1}, h \in OwnerArrivals, cid \in Ids : AdminStatus_Arrive(i, h, cid, "working")
    \/ \E i \in {1}, o \in Outcomes : AdminStatus_Update(i, o)

SpecOwner == Init /\ [][OwnerNext]_vars

\* ------------------------------------------------------ concurrent upvotes
\* A user logs in and submits complaints; upvotes of "server" and "index"
\* run MaxReq at a time, each external call of one interleaved with the
\* calls of the others.
UpvoteNext ==
    \/ Deliver
    \/ \E u \in Users : Login(u, "ok")
    \/ \E i \in Slots, h \in OwnerArrivals : Submit_Arrive(i, h, OwnerBody, NoFile)
    \/ \E i \in Slots, o \in Outcomes : Submit_Insert(i, o)
    \/ \E i \in Slots, app \in {"server", "index"}, h \in OwnerArrivals, cid \in Ids :
            Upvote_Arrive(i, app, h, cid)
    \/ \E i \in Slots, o \in Outcomes : Upvote_Fetch(i, o)
    \/ \E i \in Slots, o \in Outcomes : Upvote_Update(i, o)

SpecUpvote == Init /\ [][UpvoteNext]_vars

\* ------------------------------------------------------- the status update
\* The administrator and a user log in at "server", complaints are
\* submitted, and the status update of each of the three files is called
\* with every status input.
StatusNext ==
    \/ Deliver
    \/ \E u \in Users : Login(u, "ok")
    \/ \E h \in OwnerArrivals : Submit_Arrive(1, h, OwnerBody, NoFile)
    \/ \E o \in Outcomes : Submit_Insert(1, o)
    \/ \E h \in OwnerArrivals, cid \in Ids, st \in StatusInputs :
            AdminStatus_Arrive(1, h, cid, st)
    \/ \E app \in {"index", "legacy"}, h \in OwnerArrivals, cid \in Ids, st \in StatusInputs :
            AdminStatusIndex_Arrive(1, app, h, cid, st)
    \/ \E o \in Outcomes : AdminStatus_Update(1, o)

SpecStatus == Init /\ [][StatusNext]_vars

\* ------------------------------------------------------------- submission
\* Users log in and submit to each of the three files every body and file
\* of the input sets, one request at a time.
SubmitNext ==
    \/ Deliver
    \/ \E u \in Users : Login(u, "ok")
    \/ \E h \in OwnerArrivals, body \in Bodies, file \in Files : Submit_Arrive(1, h, body, file)
    \/ \E h \in OwnerArrivals, body \in Bodies : SubmitIndex_Arrive(1, h, body)
    \/ \E h \in OwnerArrivals, body \in Bodies : SubmitLegacy_Arrive(1, h, body)
    \/ \E o \in Outcomes : Submit_Process(1, o)
    \/ \E o \in Outcomes : Submit_Upload(1, o)
    \/ \E o \in Outcomes : Submit_Insert(1, o)

SpecSubmit == Init /\ [][SubmitNext]_vars

\* ---------------------------------------------------------- token issuance
\* Every issuance site of the three files, the clock, and one user-gated
\* and one admin-gated route on which the issued tokens are presented.
IssueNext ==
    \/ Deliver
    \/ Tick
    \/ Issue
    \/ Signups
    \/ \E h \in Arrivals : GetTags("server", h)
    \/ \E h \in Arrivals, o \in Outcomes : AdminProfile(h, o)

SpecIssue == Init /\ [][IssueNext]_vars

\* ------------------------------------------------------ the owner's list
ListBodies ==
    {[OwnerBody EXCEPT !.tags = ArrayTags(tags)] : tags \in {<<"canteen">>, <<"campus">>}}

\* Users log in, submit complaints with one tag or another, and list
\* their complaints at each of the three files with every tag query.
ListNext ==
    \/ Deliver
    \/ \E u \in Users : Login(u, "ok")
    \/ \E h \in OwnerArrivals, body \in ListBodies : Submit_Arrive(1, h, body, NoFile)
    \/ \E o \in Outcomes : Submit_Insert(1, o)
    \/ \E app \in Apps, h \in OwnerArrivals, tag \in TagQueries, o \in Outcomes :
            GetComplaints(app, h, tag, o)

SpecList == Init /\ [][ListNext]_vars

\* ------------------------------------------------------------ tag parsing
\* req.body of the submits that exercise the tag parsing
TagBodies ==
    {[OwnerBody EXCEPT !.tags = tags] :
        tags \in {ArrayTags(arr) : arr \in TagLists}
                 \cup {StringTags(JSONStringify(arr)) : arr \in TagLists}
                 \cup {StringTags(text) : text \in NoListTexts}}

\* A user logs in and submits to "server" every tag input of TagBodies.
TagsNext ==
    \/ Deliver
    \/ Login("u1", "ok")
    \/ \E h \in OwnerArrivals, body \in TagBodies : Submit_Arrive(1, h, body, NoFile)
    \/ \E o \in Outcomes : Submit_Insert(1, o)

SpecTags == Init /\ [][TagsNext]_vars

\* ======================================================================
\* Properties
\* ======================================================================
\* the routes behind authenticateAdmin or isAdmin
AdminRoutes ==
    {"GET /admin/complaints", "GET /admin/users", "GET /admin/profile",
     "GET /admin/statistics", "GET /admin/complaints/:id",
     "PUT /admin/complaints/:id/status", "PUT /admin/complaints/:id/assign",
     "DELETE /admin/complaints/:id"}

\* the routes behind authenticateToken
UserRoutes ==
    {"GET /tags", "GET /complaints", "GET /profile", "GET /test-db",
     "POST /profile/update", "POST /submit", "POST /complaints/:id/upvote",
     "DELETE /complaints/:id/image"}

\* the header carries a token the server signed, not yet expired at time t
Unexpired(h, t) ==
    /\ ~HeaderMissing(h)
    /\ h.tok \in IssuedTokens
    /\ t < h.tok.exp

\* C2: a request to an admin-gated route whose token verifies and has
\* isAdmin absent or false is answered 403 before any external call, and no
\* request in flight on an admin-gated route carries such a token.
C2_AdminGateRejectsNonAdmin ==
    /\ (resp.route \in AdminRoutes /\ Unexpired(resp.hdr, resp.at)
            /\ Falsy(Get(resp.hdr.tok.claims, "isAdmin")))
        => (resp.code = 403 /\ resp.calls = 0)
    /\ \A i \in Slots :
        (reqs[i] # Idle /\ reqs[i].route \in AdminRoutes)
            => ~Falsy(Get(reqs[i].hdr.tok.claims, "isAdmin"))

\* C2 witness: the administrator's own token from /login of "index", which
\* has no isAdmin, is refused as not an admin's
C2_Witness ==
    /\ resp.route \in AdminRoutes
    /\ Unexpired(resp.hdr, resp.at)
    /\ Get(resp.hdr.tok.claims, "id") = "u2"
    /\ Get(resp.hdr.tok.claims, "isAdmin") = Undefined
    /\ resp.code = 403
    /\ resp.body = "Access denied. Admins only."

\* the credential as authenticateToken hands it to jwt.verify is accepted
Verifies(h, t) == h.scheme = "raw" /\ Unexpired(h, t)

\* the response is the gate's own, sent before the handler
GateRejected(r) ==
    r.calls = 0 /\ r.body \in {"Access denied. No token provided.", "Invalid token."}

\* C3: behind authenticateToken a request without credential gets 401, one
\* whose credential fails verification gets 403, both before the handler;
\* any other reaches the handler with the token's identity attached.
C3_UserGateThreeOutcomes ==
    /\ resp.route \in UserRoutes =>
        /\ HeaderMissing(resp.hdr)
            => (resp.code = 401 /\ GateRejected(resp))
        /\ (~HeaderMissing(resp.hdr) /\ ~Verifies(resp.hdr, resp.at))
            => (resp.code = 403 /\ GateRejected(resp))
        /\ Verifies(resp.hdr, resp.at) => ~GateRejected(resp)
    /\ \A i \in Slots :
        (reqs[i] # Idle /\ reqs[i].route \in UserRoutes)
            => /\ reqs[i].hdr.scheme = "raw"
               /\ Verifies(reqs[i].hdr, reqs[i].at)
               /\ reqs[i].uid = Get(reqs[i].hdr.tok.claims, "id")

\* C3 witness: a token the server signed, presented after its expiry, is
\* answered 403 by the gate
C3_Witness ==
    /\ resp.route \in UserRoutes
    /\ resp.hdr.scheme = "raw"
    /\ resp.hdr.tok \in IssuedTokens
    /\ resp.at >= resp.hdr.tok.exp
    /\ resp.code = 403
    /\ resp.calls = 0

\* C10: at every time, a token is accepted by verify iff it was signed with
\* the server secret and less than one hour has passed since it was issued;
\* while accepted it decodes to the id, email and isAdmin it was signed from.
C10_VerifyIssueRoundTrip ==
    /\ \A e \in issued :
        LET v == JwtVerify(e.tok, JWT_SECRET, now)
        IN  IF now < e.at + 60 * 60
            THEN /\ v.err = ""
                 /\ v.user.id = e.payload.id
                 /\ v.user.email = e.payload.email
                 /\ v.user.isAdmin = e.payload.isAdmin
            ELSE v.err # ""
    /\ \A t \in {Garbage, Forged("u1")} : JwtVerify(t, JWT_SECRET, now).err # ""
    /\ (resp.route = "GET /tags" /\ resp.hdr.scheme = "raw")
        => (resp.code = 200 <=>
                \E e \in issued : e.tok = resp.hdr.tok /\ now < e.at + 60 * 60)

\* C10 witness: a token issued earlier is refused at the very second of its
\* expiry, while a later token is still accepted
C10_Witness ==
    /\ resp.route = "GET /tags"
    /\ resp.code = 403
    /\ \E e \in issued : e.tok = resp.hdr.tok /\ now = e.at + 60 * 60
    /\ \E e \in issued : e.at > 0 /\ JwtVerify(e.tok, JWT_SECRET, now).err = ""

\* the routes the route table lists as the owner's or any user's writes
OwnerRoutes ==
    {"DELETE /complaints/:id", "DELETE /complaints/:id/image", "POST /complaints/:id/upvote"}

\* this step is the last of request i, which is about complaint cid
Ends(i, cid) == reqs[i] # Idle /\ reqs[i].cid = cid /\ reqs'[i] = Idle

\* C1 as stated: on DELETE /complaints/:id, DELETE /complaints/:id/image and
\* POST /complaints/:id/upvote a request whose identity differs from the
\* stored owner never succeeds and never changes the record; only
\* admin-gated routes change a record for a non-owner.
C1_OwnershipOnAllThreeRoutes ==
    [][\A cid \in Ids : \A i \in Slots :
        (Ends(i, cid) /\ Exists(store, cid) /\ reqs[i].route \notin AdminRoutes
            /\ reqs[i].uid # store[cid].user_id)
        => (store'[cid] = store[cid] /\ resp'.code # 200)]_vars

\* C1, amended: on the two delete routes a request whose identity differs
\* from the stored owner never succeeds and never changes the record; an
\* upvote by any authenticated user changes nothing but the upvotes counter;
\* every other change of a stored record belongs to an admin-gated route.
C1_OwnershipOnDeleteRoutes ==
    [][\A cid \in Ids :
        /\ \A i \in Slots :
            (Ends(i, cid) /\ Exists(store, cid)
                /\ reqs[i].route \in OwnerRoutes \ {"POST /complaints/:id/upvote"}
                /\ reqs[i].uid # store[cid].user_id)
            => (store'[cid] = store[cid] /\ resp'.code # 200)
        /\ \A i \in Slots :
            (Ends(i, cid) /\ Exists(store, cid)
                /\ reqs[i].route = "POST /complaints/:id/upvote")
            => store'[cid] = [store[cid] EXCEPT !.upvotes = store'[cid].upvotes]
        /\ (Exists(store, cid) /\ store'[cid] # store[cid])
            => \E i \in Slots :
                Ends(i, cid) /\ reqs[i].route \in OwnerRoutes \cup AdminRoutes]_vars

\* C1 witness: a user other than the owner asked to remove the image of a
\* complaint and was refused, the image still attached
C1_Witness ==
    /\ resp.route = "DELETE /complaints/:id/image"
    /\ resp.code = 403
    /\ resp.body = "Unauthorized"
    /\ Exists(store, resp.cid)
    /\ store[resp.cid].user_id # Get(resp.hdr.tok.claims, "id")
    /\ store[resp.cid].image_url # NullUrl

\* C4: DELETE /complaints/:id by the authenticated owner of an existing
\* complaint, the store calls succeeding, removes the record and answers 200.
C4_OwnerDeleteSucceeds ==
    (/\ resp.route = "DELETE /complaints/:id"
     /\ Verifies(resp.hdr, resp.at)
     /\ resp.last = "ok"
     /\ resp.input # NoLoc
     /\ resp.input.complaint.user_id = Get(resp.hdr.tok.claims, "id"))
    => (resp.code = 200 /\ ~Exists(store, resp.cid))

\* the routes the route table lists with auth user, user (owner) or admin
GatedRoutes == UserRoutes \cup AdminRoutes \cup {"DELETE /complaints/:id"}

\* C5: on every route listed with auth user, user (owner) or admin, a
\* request without credential is answered 401 and makes no call to the
\* record store or the object storage.
C5_NoCredentialNoStoreAccess ==
    /\ (resp.route \in GatedRoutes /\ HeaderMissing(resp.hdr))
        => (resp.code = 401 /\ resp.calls = 0)
    /\ \A i \in Slots :
        (reqs[i] # Idle /\ reqs[i].route \in GatedRoutes) => ~HeaderMissing(reqs[i].hdr)

\* no upvote of complaint cid is in flight
Settled(cid) == InFlight("POST /complaints/:id/upvote", cid) = {}

\* C6: once the upvote requests on a complaint have all been answered, its
\* stored counter is its initial value, 0, plus the number of upvotes that
\* returned success; two concurrent successful upvotes leave exactly 2.
C6_UpvotesCountEverySuccess ==
    \A cid \in Ids :
        (Exists(store, cid) /\ Settled(cid)) => OrZero(store[cid].upvotes) = upvoted[cid]

\* the response is to a status update that passed the admin gate
StatusHandled(r) ==
    /\ r.route = "PUT /admin/complaints/:id/status"
    /\ r.input # NoLoc

\* C8: an admin status update whose status is not pending, working or
\* finished, a missing one included, is answered 400, and the status of
\* every stored complaint is one of the three values.
C8_StatusOutsideEnumRejected ==
    /\ (StatusHandled(resp) /\ ~Includes(STATUSES, resp.input.status)) => resp.code = 400
    /\ \A cid \in Ids : Exists(store, cid) => Includes(STATUSES, store[cid].status)

\* the response is to a submit that passed the gate, named a title and a
\* description, carried no file and an array of tags with unknown members,
\* and had no external call fail
UnknownTagsSubmitted(r) ==
    /\ r.route = "POST /submit"
    /\ r.input # NoLoc
    /\ ~Falsy(r.input.body.title)
    /\ ~Falsy(r.input.body.description)
    /\ ~r.input.file.present
    /\ r.input.body.tags.t = "array"
    /\ ~EveryIncluded(r.input.body.tags.v, VALID_TAGS)
    /\ r.last \in {"none", "ok"}

\* C7: every tag of every stored complaint is in the vocabulary, and a
\* submit whose tags include unknown values is accepted and stores exactly
\* the known ones.
C7_UnknownTagsDroppedNotRejected ==
    /\ \A cid \in Ids :
        Exists(store, cid) => EveryIncluded(store[cid].tags, VALID_TAGS)
    /\ UnknownTagsSubmitted(resp)
        => /\ resp.code = 201
           /\ store[resp.cid].tags = FilterIncluded(resp.input.body.tags.v, VALID_TAGS)

\* C9: every complaint written by POST /submit is owned by the identity of
\* the token the request presented, whatever user_id its body names.
C9_OwnerForcedFromToken ==
    /\ (resp.route = "POST /submit" /\ resp.code = 201)
        => /\ Exists(store, resp.cid)
           /\ store[resp.cid].user_id = Get(resp.hdr.tok.claims, "id")
    /\ \A cid \in Ids : Exists(store, cid) =>
        \E e \in issued : store[cid].user_id = e.payload.id

\* C9 witness: a submit by u1 whose body names user_id u2 stored a
\* complaint owned by u1
C9_Witness ==
    /\ resp.route = "POST /submit"
    /\ resp.code = 201
    /\ resp.input.body.user_id = "u2"
    /\ Get(resp.hdr.tok.claims, "id") = "u1"
    /\ store[resp.cid].user_id = "u1"

\* C11: a token with isAdmin true is issued only to an identity whose
\* metadata has admin true, at POST /signup, POST /login and POST
\* /admin/login; POST /admin/login answers 403 without a token to an
\* identity without the flag and gives one with the flag a token the admin
\* gates accept.
C11_AdminTokenOnlyForAdminIdentity ==
    /\ \A e \in issued :
        (e.payload.isAdmin = JsTrue \/ Get(e.tok.claims, "isAdmin") = JsTrue)
            => MetadataAdmin(e.payload.id) = JsTrue
    /\ (resp.body = "token" /\ Get(resp.tok.claims, "isAdmin") = JsTrue)
        => MetadataAdmin(resp.input.user) = JsTrue
    /\ (resp.route = "POST /admin/login" /\ resp.last = "ok")
        => IF MetadataAdmin(resp.input.user) = JsTrue
           THEN /\ resp.code = 200
                /\ Get(resp.tok.claims, "isAdmin") = JsTrue
                /\ isAdmin(RawHeader(resp.tok), now).code = Pass
                /\ authenticateAdmin(RawHeader(resp.tok), now).code = Pass
           ELSE resp.code = 403 /\ resp.body # "token"

\* C11 witness: POST /admin/login refused a user without the flag while a
\* token with isAdmin true, the administrator's, is in circulation
C11_Witness ==
    /\ resp.route = "POST /admin/login"
    /\ resp.input.user = "u1"
    /\ resp.code = 403
    /\ \E e \in issued : e.payload.isAdmin = JsTrue /\ e.payload.id = "u2"

\* the response is a list of complaints
Listed(r) == r.route = "GET /complaints" /\ r.code = 200

\* C12: GET /complaints returns only records owned by the authenticated
\* identity, newest first; a tag of the vocabulary restricts the result to
\* the records containing it, and an unrecognized tag applies no filter.
C12_OwnListNewestFirstTagFilter ==
    Listed(resp) =>
        LET userId == Get(resp.hdr.tok.claims, "id")
            tag == resp.input.tag
            complaints == resp.input.complaints
        IN  /\ \A k \in 1..Len(complaints) : store[complaints[k]].user_id = userId
            /\ \A j, k \in 1..Len(complaints) : j < k => complaints[j] > complaints[k]
            /\ Includes(VALID_TAGS, tag)
                => \A k \in 1..Len(complaints) : Includes(store[complaints[k]].tags, tag)
            /\ ~Includes(VALID_TAGS, tag)
                => complaints = NewestFirst(Matching(userId, tag, FALSE))

\* the response is to an owner-checked request whose select was answered
OwnerChecked(r) ==
    /\ r.route \in {"DELETE /complaints/:id", "DELETE /complaints/:id/image"}
    /\ r.calls = 1
    /\ r.last = "ok"

\* who the request is from: the identity of its token, if it verifies
Requester(r) ==
    IF Verifies(r.hdr, r.at) THEN Get(r.hdr.tok.claims, "id") ELSE Undefined

\* what the two handlers answer when the select finds no row
NotFoundAnswer == <<404, "Complaint not found">>

\* C13: on DELETE /complaints/:id and DELETE /complaints/:id/image the
\* response for a record owned by someone else is the response for a record
\* that does not exist, status and body alike.
C13_OthersRecordLooksAbsent ==
    OwnerChecked(resp) =>
        /\ ~Exists(store, resp.cid) => <<resp.code, resp.body>> = NotFoundAnswer
        /\ (Exists(store, resp.cid) /\ store[resp.cid].user_id # Requester(resp))
            => <<resp.code, resp.body>> = NotFoundAnswer

\* the routes whose external call goes to the identity store
IdentityRoutes == {"POST /login", "POST /admin/login", "POST /signup"}

\* C14: a request whose call to the record store or the object storage
\* failed, by an error or a throw, made that call its last and is answered
\* 500.
C14_DependencyFailureIs500 ==
    (resp.route \notin IdentityRoutes /\ resp.last \in {"error", "throw"})
        => resp.code = 500

\* C15: a complaint created by POST /submit starts with status pending and
\* with an upvote count of 0, as the handlers read it, whatever status or
\* upvotes the request body names.
C15_CreatedPendingWithNoUpvotes ==
    (resp.route = "POST /submit" /\ resp.code = 201)
        => /\ store[resp.cid].status = "pending"
           /\ OrZero(store[resp.cid].upvotes) = 0
           /\ upvoted[resp.cid] = 0

\* C15 witness: a submit whose body names status finished and upvotes 5
\* created a pending complaint without upvotes
C15_Witness ==
    /\ resp.route = "POST /submit"
    /\ resp.code = 201
    /\ resp.input.body.status = "finished"
    /\ resp.input.body.upvotes = 5
    /\ store[resp.cid].status = "pending"
    /\ OrZero(store[resp.cid].upvotes) = 0

\* the response is to a submit at "server" that reached the tag parsing
TagsParsed(r) ==
    /\ r.route = "POST /submit"
    /\ r.app = "server"
    /\ r.input # NoLoc
    /\ r.last \in {"none", "ok"}

\* the list a client meant by tags: the array itself, or the list whose
\* JSON text it sent
MeantLists(tags) ==
    IF tags.t = "array" THEN {tags.v}
    ELSE IF tags.t = "string" THEN {arr \in TagLists : JSONStringify(arr) = tags.text}
    ELSE {<< >>}

InVocabulary(tag) == tag \in {"electricity", "canteen", "furniture", "campus"}

\* C16: tag validation is the intersection with the vocabulary and is
\* idempotent: a list inside the vocabulary is stored unchanged, unknown
\* members and only they are removed, validating the stored list again
\* returns it, and a string that is no list is answered 400.
C16_TagValidationIntersectsIdempotent ==
    TagsParsed(resp) =>
        LET tags == resp.input.body.tags
        IN  /\ MeantLists(tags) = {}
                => (resp.code = 400 /\ resp.body = "Invalid tags format")
            /\ \A arr \in MeantLists(tags) :
                /\ resp.code = 201
                /\ store[resp.cid].tags = SelectSeq(arr, InVocabulary)
                /\ (\A k \in 1..Len(arr) : InVocabulary(arr[k]))
                    => store[resp.cid].tags = arr
                /\ ParseTags(ArrayTags(store[resp.cid].tags))
                    = [ok |-> TRUE, tags |-> store[resp.cid].tags]

\* C16 witness: the JSON text of a list with an unknown tag before and
\* after a known one was stored as the known tag alone
C16_Witness ==
    /\ TagsParsed(resp)
    /\ resp.input.body.tags = StringTags(JSONStringify(<<"bogus", "campus", "bogus">>))
    /\ resp.code = 201
    /\ store[resp.cid].tags = <<"campus">>

\* multer refuses the file: not an image, or more than 5 MiB
IntakeFails(file) == file.present /\ (~file.image \/ file.size > FileSizeLimit)

\* the stored object a row's image_url points to exists
ImageStored(row, objs) ==
    row.image_url # NullUrl => ObjectKey(LastSegment(row.image_url)) \in objs

\* C17: in POST /submit a failure of intake, normalization or storage ends
\* the request: no later stage runs and no record is written; a record with
\* an image_url is written only after its object was stored; a missing
\* title or description is refused before any object is stored.
C17_ImagePipelineTerminalOnFailure ==
    [][(resp' # NoResp /\ resp'.route = "POST /submit" /\ resp'.app = "server"
            /\ resp'.input # NoLoc)
        => LET r == resp'
               file == r.input.file
               body == r.input.body
           IN  /\ r.code # 201 => (store' = store /\ nextId' = nextId)
               /\ IntakeFails(file)
                    => (r.calls = 0 /\ r.code # 201 /\ objects' = objects)
               /\ (Falsy(body.title) \/ Falsy(body.description))
                    => (r.calls = 0 /\ r.code # 201 /\ objects' = objects)
               /\ (file.present /\ ~file.decodes)
                    => (r.calls <= 1 /\ r.code # 201 /\ objects' = objects)
               /\ (r.calls = 1 /\ file.present) => (r.code = 500 /\ objects' = objects)
               /\ (r.calls = 2 /\ file.present) => (r.code = 500 /\ r.last # "ok")
               /\ r.code = 201
                    => /\ r.calls = IF file.present THEN 3 ELSE 1
                       /\ file.present <=> store'[r.cid].image_url # NullUrl
                       /\ ImageStored(store'[r.cid], objects')
               /\ \A i \in Slots : reqs'[i] = Idle]_vars

\* C17 witness: the upload of a decoded image failed, the request was
\* answered 500 after two stages and neither object nor record exists
C17_Witness ==
    /\ resp.route = "POST /submit"
    /\ resp.input # NoLoc
    /\ resp.input.file.present
    /\ resp.calls = 2
    /\ resp.code = 500
    /\ objects = {}
    /\ nextId = 1

\* the stages of DELETE /complaints/:id/image a request can be waiting in
ImageStages == {"image.fetch", "image.remove", "image.update"}

\* the record has a URL whose object is gone
Dangling(st, objs, cid) ==
    /\ Exists(st, cid)
    /\ st[cid].image_url # NullUrl
    /\ ObjectKey(LastSegment(st[cid].image_url)) \notin objs

\* C18: DELETE /complaints/:id/image runs ownership check, name derivation,
\* object delete, URL clear in this order and stops at the first failure:
\* image_url becomes null only after the storage delete succeeded, a failed
\* storage delete leaves the record unchanged, and the only inconsistency a
\* step of the path creates is a URL whose object was deleted.
C18_ImageDeleteOrderedStopsAtFailure ==
    [][\A i \in Slots : (reqs[i].pc \in ImageStages /\ reqs'[i] # reqs[i])
        => LET r == reqs[i]
               key == ObjectKey(LastSegment(store[r.cid].image_url))
           IN  /\ r.pc = "image.fetch" => (r.calls = 0 /\ store' = store /\ objects' = objects)
               /\ r.pc = "image.remove"
                    => /\ r.calls = 1 /\ store' = store
                       /\ ~NotOwner(store[r.cid], r.uid)
                       /\ r.loc.fileName = LastSegment(store[r.cid].image_url)
                       /\ objects' \in {objects, objects \ {key}}
                       /\ IF reqs'[i] = Idle
                          THEN resp'.code = 500 /\ objects' = objects
                          ELSE reqs'[i].pc = "image.update" /\ key \notin objects'
               /\ r.pc = "image.update"
                    => /\ r.calls = 2 /\ objects' = objects
                       /\ ObjectKey(r.loc.fileName) \notin objects
                       /\ store' \in {store, [store EXCEPT ![r.cid].image_url = NullUrl]}
                       /\ (resp'.code = 200) <=> (store'[r.cid].image_url = NullUrl)
               /\ \A cid \in Ids :
                    /\ (Exists(store, cid) /\ Exists(store', cid)
                          /\ store[cid].image_url # store'[cid].image_url)
                        => (cid = r.cid /\ r.pc = "image.update" /\ Dangling(store, objects, cid))
                    /\ (Exists(store', cid) /\ store'[cid].image_url # NullUrl
                          /\ ~Dangling(store, objects, cid) /\ Dangling(store', objects', cid))
                        => (cid = r.cid /\ r.pc = "image.remove")
                    /\ Exists(store, cid) <=> Exists(store', cid)]_vars

\* C18 witness: the object was deleted and the update failed, so the request
\* was answered 500 after three calls and the record keeps a dangling URL
C18_Witness ==
    /\ resp.route = "DELETE /complaints/:id/image"
    /\ resp.calls = 3
    /\ resp.code = 500
    /\ Dangling(store, objects, resp.cid)

\* ------------------------------------------------------ concurrent comments
\* The administrator and a user log in, complaints are submitted, and
\* comment requests run MaxReq at a time, each external call of one
\* interleaved with the calls of the others.
CommentInputs == {Undefined, "seen", "fixed"}

CommentNext ==
    \/ Deliver
    \/ \E u \in Users : Login(u, "ok")
    \/ \E h \in OwnerArrivals : Submit_Arrive(1, h, OwnerBody, NoFile)
    \/ \E o \in Outcomes : Submit_Insert(1, o)
    \/ \E i \in Slots, h \in OwnerArrivals, cid \in Ids, comment \in CommentInputs :
            Comment_Arrive(i, h, cid, comment)
    \/ \E i \in Slots, o \in Outcomes : Comment_Fetch(i, o)
    \/ \E i \in Slots, o \in Outcomes : Comment_Update(i, o)

SpecComment == Init /\ [][CommentNext]_vars

\* s is an initial segment of t
IsPrefix(s, t) == Len(s) <= Len(t) /\ SubSeq(t, 1, Len(s)) = s

\* C19: the comment log is append-only under any interleaving: a comment
\* request answered with success leaves its entry after all entries stored
\* before it, and no stored entry is ever removed or reordered.
C19_CommentLogAppendOnly ==
    [][\A cid \in Ids :
        /\ (Exists(store, cid) /\ Exists(store', cid))
            => IsPrefix(store[cid].admin_comments, store'[cid].admin_comments)
        /\ (resp' # NoResp /\ resp'.route = "POST /admin/complaints/:id/comment"
              /\ resp'.code = 200 /\ resp'.cid = cid /\ Exists(store, cid))
            => /\ Len(store'[cid].admin_comments) = Len(store[cid].admin_comments) + 1
               /\ store'[cid].admin_comments[Len(store'[cid].admin_comments)].text
                    = resp'.input.comment]_vars

\* C20: every request receives exactly one response when each of its
\* external calls completes by a result, an error or a throw: a handler
\* that has ended has written a response.
C20_EveryRequestAnsweredOnce ==
    resp.route # "none" => resp.code # NoResponse

====
